---------------------------- MODULE Spec2Model ----------------------------
(***************************************************************************)
(* A model of models/yolo.py: the graph builder parse_model, the           *)
(* execution engine Model._forward_once, the detection head Detect         *)
(* (grid cache and box decoding) and the test-time-augmentation helpers    *)
(* Model._descale_pred and Model._clip_augmented.                          *)
(*                                                                         *)
(* Tensors are modelled by what the code reads of them: their shape, and   *)
(* for the detection head the value of every element, held as an exact     *)
(* rational <<numerator, denominator>>.                                    *)
(***************************************************************************)
EXTENDS Integers, Sequences, FiniteSets, TLC

(***************************************************************************)
(* Python helpers                                                          *)
(***************************************************************************)

Min(a, b) == IF a <= b THEN a ELSE b

Max(a, b) == IF a >= b THEN a ELSE b

\* seq[k] of Python is defined for -len <= k < len
PyIndexOK(len, k) == -len <= k /\ k < len

\* seq[k] of Python, k counted from 0, a negative k from the end
PyIndex(seq, k) == IF k >= 0 THEN seq[k + 1] ELSE seq[Len(seq) + k + 1]

\* list.insert(k, v) for k >= 0: past the end it appends
PyInsert(seq, k, v) ==
    LET p == Min(k, Len(seq))
    IN  SubSeq(seq, 1, p) \o <<v>> \o SubSeq(seq, p + 1, Len(seq))

\* a slice bound of Python: a negative one counts from the end, and it is clamped
PyBound(len, k) == IF k < 0 THEN Max(len + k, 0) ELSE Min(k, len)

\* seq[a:b] of Python
PySlice(seq, a, b) == SubSeq(seq, PyBound(Len(seq), a) + 1, PyBound(Len(seq), b))

\* round(num / den) of Python 3 for den > 0: halves go to the even neighbour
PyRound(num, den) ==
    LET q == num \div den
        r == num - q * den
    IN  IF 2 * r < den THEN q
        ELSE IF 2 * r > den THEN q + 1
        ELSE IF q % 2 = 0 THEN q ELSE q + 1

RECURSIVE SumSeq(_)
SumSeq(s) == IF s = <<>> THEN 0 ELSE Head(s) + SumSeq(Tail(s))

RECURSIVE MaxSeq(_)
MaxSeq(s) == IF Len(s) = 1 THEN Head(s) ELSE Max(Head(s), MaxSeq(Tail(s)))

RECURSIVE SortedInsert(_, _)
SortedInsert(s, v) ==
    IF s = <<>> THEN <<v>>
    ELSE IF v <= Head(s) THEN <<v>> \o s
    ELSE <<Head(s)>> \o SortedInsert(Tail(s), v)

\* sorted(list): ascending, duplicates kept
RECURSIVE Sorted(_)
Sorted(s) == IF s = <<>> THEN <<>> ELSE SortedInsert(Sorted(Tail(s)), Head(s))

SeqToSet(s) == {s[k] : k \in 1..Len(s)}

(***************************************************************************)
(* Values of a layer's argument list                                       *)
(***************************************************************************)

IntV(k) == [t |-> "int", n |-> k, s |-> "", l |-> <<>>]

StrV(text) == [t |-> "str", n |-> 0, s |-> text, l |-> <<>>]

ListV(xs) == [t |-> "list", n |-> 0, s |-> "", l |-> xs]

NoneV == [t |-> "none", n |-> 0, s |-> "", l |-> <<>>]

\* a per-scale anchor list: nl scales of na (width, height) pairs each
AnchV(nl, na) == [t |-> "anchors", n |-> na, s |-> "", l |-> <<nl>>]

\* a 'from' entry of a layer: one index, or a list of indices
One(x) == [list |-> FALSE, v |-> <<x>>]

Many(xs) == [list |-> TRUE, v |-> xs]

(***************************************************************************)
(* The layer types of parse_model's dispatch chain                         *)
(***************************************************************************)

ConvFamily ==
    {"Conv", "GhostConv", "Bottleneck", "GhostBottleneck", "SPP", "SPPF", "DWConv",
     "MixConv2d", "Focus", "CrossConv", "BottleneckCSP", "C3", "C3TR", "C3SPP",
     "C3Ghost", "C3HB", "C3RFEM", "MultiSEAM", "SEAM", "C3STR"}

ConvFamilyRepeat == {"BottleneckCSP", "C3", "C3TR", "C3Ghost", "C3HB", "C3RFEM", "C3STR"}

ResearchFamily ==
    {"CARAFE", "SPPCSPC", "SPPFCSPC", "RepConv", "BoT3", "CA", "CBAM", "NAMAttention",
     "GAMAttention", "Involution", "Stem", "ResCSPC", "ResCSPB", "ResXCSPB", "ResXCSPC",
     "BottleneckCSPB", "BottleneckCSPC", "ASPP", "BasicRFB", "SPPCSPC_group", "HorBlock",
     "CNeB", "C3GC", "C3C2", "nn.ConvTranspose2d"}

ResearchFamilyRepeat ==
    {"C3RFEM", "SPPCSPC", "BoT3", "ResCSPC", "ResCSPB", "ResXCSPB", "ResXCSPC",
     "BottleneckCSPB", "BottleneckCSPC", "HorBlock", "CNeB", "C3GC", "C3C2"}

LightFamily ==
    {"CBH", "ES_Bottleneck", "DWConvblock", "RepVGGBlock", "LC_Block", "Dense",
     "conv_bn_relu_maxpool", "Shuffle_Block", "stem", "mobilev3_bneck", "conv_bn_hswish",
     "MobileNetV3_InvertedResidual", "DepthSepConv", "ShuffleNetV2_Model", "Conv_maxpool",
     "CoT3", "ConvNextBlock", "RepBlock"}

LightFamilyRepeat == {"CoT3", "ConvNextBlock"}

V4Family ==
    {"SPPCSP", "BottleneckCSP2", "DownC", "BottleneckCSPF", "RepVGGBlockv6", "VoVGSCSP",
     "GSConv"}

V4FamilyRepeat == {"SPPCSP", "BottleneckCSP2", "DownC", "BottleneckCSPF", "VoVGSCSP"}

ReorgFamily == {"ReOrg", "DWT"}

AttentionFamily ==
    {"S2Attention", "SimSPPF", "ACmix", "CrissCrossAttention", "SOCA", "ShuffleAttention",
     "SEAttention", "SimAM", "SKAttention"}

RepLKFamily ==
    {"RepLKNet_Stem", "RepLKNet_stage1", "RepLKNet_stage2", "RepLKNet_stage3",
     "RepLKNet_stage4"}

AuxDetectFamily == {"IDetect", "IAuxDetect"}

DetectXFamily == {"DetectX", "DetectYoloX"}

TorchvisionFamily ==
    {"RegNet1", "RegNet2", "RegNet3", "Efficient1", "Efficient2", "Efficient3",
     "MobileNet1", "MobileNet2", "MobileNet3"}

\* names that eval(m) resolves without one of the rules above (the final else)
OtherTypes == {"nn.Upsample", "nn.Identity"}

\* the branch of the if/elif chain that a type takes, in the chain's order
Rule(m) ==
    IF m \in ConvFamily THEN "scaled"
    ELSE IF m \in ResearchFamily THEN "scaled"
    ELSE IF m \in LightFamily THEN "scaled"
    ELSE IF m \in V4Family THEN "scaled"
    ELSE IF m \in ReorgFamily THEN "times4"
    ELSE IF m \in AttentionFamily THEN "attention"
    ELSE IF m = "nn.BatchNorm2d" THEN "batchnorm"
    ELSE IF m = "Concat" THEN "concat"
    ELSE IF m = "ConvNeXt" THEN "first"
    ELSE IF m \in RepLKFamily THEN "first"
    ELSE IF m = "ADD" THEN "add"
    ELSE IF m = "Concat_bifpn" THEN "bifpn"
    ELSE IF m = "Detect" THEN "detect"
    ELSE IF m = "space_to_depth" THEN "times4"
    ELSE IF m \in {"ASFF_Detect", "Decoupled_Detect"} THEN "detect"
    ELSE IF m \in AuxDetectFamily THEN "detect"
    ELSE IF m \in DetectXFamily THEN "detectx"
    ELSE IF m = "Contract" THEN "contract"
    ELSE IF m = "MobileOne" THEN "mobileone"
    ELSE IF m = "HorNet" THEN "first"
    ELSE IF m \in TorchvisionFamily THEN "firstkeep"
    ELSE IF m = "Expand" THEN "expand"
    ELSE "default"

\* the types whose branch passes n to the constructor with args.insert(2, n); n = 1
InsertsRepeat(m) ==
    \/ m \in ConvFamily /\ m \in ConvFamilyRepeat
    \/ m \in ResearchFamily \ ConvFamily /\ m \in ResearchFamilyRepeat
    \/ m \in LightFamily \ (ConvFamily \cup ResearchFamily) /\ m \in LightFamilyRepeat
    \/ m \in V4Family \ (ConvFamily \cup ResearchFamily \cup LightFamily)
       /\ m \in V4FamilyRepeat

\* every name eval(m) resolves
KnownTypes ==
    ConvFamily \cup ResearchFamily \cup LightFamily \cup V4Family \cup ReorgFamily
    \cup AttentionFamily \cup RepLKFamily \cup AuxDetectFamily \cup DetectXFamily
    \cup TorchvisionFamily \cup OtherTypes
    \cup {"nn.BatchNorm2d", "Concat", "ConvNeXt", "ADD", "Concat_bifpn", "Detect",
          "space_to_depth", "ASFF_Detect", "Decoupled_Detect", "Contract", "MobileOne",
          "HorNet", "Expand"}

(***************************************************************************)
(* parse_model: one layer of the build                                     *)
(***************************************************************************)

\* utils.general.make_divisible(c * gw, 8) for gw = <<num, den>>: the nearest
\* multiple of 8, at least 8, and one multiple up when that is under 90% of c * gw
make_divisible(c, gw) ==
    LET num == c * gw[1]
        den == gw[2]
        near == Max(8, (((num + 4 * den) \div den) \div 8) * 8)
    IN  IF 10 * near * den < 9 * num THEN near + 8 ELSE near

\* n = n_ = max(round(n * gd), 1) if n > 1 else n, for gd = <<num, den>>
DepthGain(n, gd) == IF n > 1 THEN Max(PyRound(n * gd[1], gd[2]), 1) ELSE n

\* na = (len(anchors[0]) // 2) if isinstance(anchors, list) else anchors
NumAnchors(anchors) == anchors.n

\* no = na * (nc + 5)
NumOutputs(d) == NumAnchors(d.anchors) * (d.nc + 5)

\* eval(a) of a string argument among parse_model's locals; a NameError keeps it
Eval(a, d) ==
    IF a.t # "str" THEN a
    ELSE IF a.s = "nc" THEN IntV(d.nc)
    ELSE IF a.s = "anchors" THEN d.anchors
    ELSE IF a.s = "na" THEN IntV(NumAnchors(d.anchors))
    ELSE IF a.s = "no" THEN IntV(NumOutputs(d))
    ELSE IF a.s = "None" THEN NoneV
    ELSE a

EvalArgs(args, d) == [j \in 1..Len(args) |-> Eval(args[j], d)]

\* ch[x] for every x of a list of sources
Gather(ch, xs) == [k \in 1..Len(xs) |-> PyIndex(ch, xs[k])]

\* whether the branch of type m reads the channel trace without an exception
ReadsOK(m, f, args, ch) ==
    LET r == Rule(m)
        one == ~f.list /\ PyIndexOK(Len(ch), f.v[1])
        all == f.list /\ \A k \in 1..Len(f.v) : PyIndexOK(Len(ch), f.v[k])
        arg0 == Len(args) >= 1 /\ args[1].t = "int"
    IN  CASE r \in {"scaled", "attention", "mobileone"} -> one /\ arg0
          [] r \in {"times4", "batchnorm", "default"} -> one
          [] r \in {"contract", "expand"} -> one /\ arg0 /\ (r = "expand" => args[1].n # 0)
          [] r \in {"concat", "add"} -> all
          [] r = "bifpn" -> all /\ Len(f.v) >= 1
          [] r \in {"first", "firstkeep"} -> arg0
          [] r = "detect" -> all /\ Len(args) >= 1
          [] r = "detectx" -> all

\* c2 after the branch of type m (the branches that do not assign it keep the
\* value the previous layer left)
OutChannels(m, f, args, ch, c2, d) ==
    LET r == Rule(m)
        scaled == IF args[1].n # NumOutputs(d) THEN make_divisible(args[1].n, d.gw)
                  ELSE args[1].n
    IN  CASE r \in {"scaled", "attention"} -> scaled
          [] r = "mobileone" -> make_divisible(args[1].n, d.gw)
          [] r = "times4" -> PyIndex(ch, f.v[1]) * 4
          [] r = "concat" -> SumSeq(Gather(ch, f.v))
          [] r = "add" -> SumSeq(Gather(ch, f.v)) \div 2
          [] r = "bifpn" -> MaxSeq(Gather(ch, f.v))
          [] r \in {"first", "firstkeep"} -> args[1].n
          [] r = "contract" -> PyIndex(ch, f.v[1]) * args[1].n * args[1].n
          [] r = "expand" -> PyIndex(ch, f.v[1]) \div (args[1].n * args[1].n)
          [] r = "default" -> PyIndex(ch, f.v[1])
          [] r \in {"batchnorm", "detect", "detectx"} -> c2

\* the list object of the layer spec after the branch: only the detection heads
\* change it in place (append of the channel list, expansion of an anchor count)
SpecArgsAfter(m, f, args, ch) ==
    LET r == Rule(m)
        app == Append(args, ListV(Gather(ch, f.v)))
    IN  IF r = "detectx" THEN app
        ELSE IF r = "detect"
        THEN IF app[2].t = "int"
             THEN [app EXCEPT ![2] = AnchV(Len(f.v), app[2].n)]
             ELSE app
        ELSE args

\* the argument list handed to the constructor
CtorArgs(m, f, args, ch, n, d) ==
    LET r == Rule(m)
        c1 == PyIndex(ch, f.v[1])
        c2n == OutChannels(m, f, args, ch, 0, d)
        base == <<IntV(c1), IntV(c2n)>> \o Tail(args)
    IN  CASE r = "scaled" ->
               IF InsertsRepeat(m) THEN PyInsert(base, 2, IntV(n))
               ELSE IF m = "nn.ConvTranspose2d" /\ Len(base) >= 7
               THEN [base EXCEPT ![7] = IntV(make_divisible(base[7].n, d.gw))]
               ELSE base
          [] r = "attention" -> <<IntV(c1)>> \o Tail(args)
          [] r = "batchnorm" -> <<IntV(c1)>>
          [] r = "first" -> Tail(args)
          [] r = "mobileone" -> <<IntV(c1), IntV(c2n), IntV(n)>> \o Tail(args)
          [] r \in {"detect", "detectx"} -> SpecArgsAfter(m, f, args, ch)
          [] OTHER -> args

\* the sequence-level repeat left after the branch
RepeatAfter(m, n) == IF Rule(m) = "scaled" /\ InsertsRepeat(m) THEN 1 ELSE n

\* Detect.__init__(nc, anchors, ch, inplace): at most four arguments, and
\* len(anchors), len(anchors[0]) need a list of at least one scale
CtorOK(m, cargs) ==
    m = "Detect" =>
        /\ Len(cargs) <= 4
        /\ Len(cargs) >= 2
        /\ cargs[2].t = "anchors"
        /\ cargs[2].l[1] >= 1

\* x % i of one source entry
SaveMutantRaw(x, i) == x

SaveIndex(x, i) == x % i

\* save.extend(x % i for x in ([f] if isinstance(f, int) else f) if x != -1)
RECURSIVE SaveExtend(_, _, _)
SaveExtend(save, xs, i) ==
    IF xs = <<>> THEN save
    ELSE IF Head(xs) = -1 THEN SaveExtend(save, Tail(xs), i)
    ELSE SaveExtend(Append(save, SaveIndex(Head(xs), i)), Tail(xs), i)

\* x % 0 raises ZeroDivisionError
SaveOK(f, i) == i = 0 => \A k \in 1..Len(f.v) : f.v[k] = -1

\* if i == 0: ch = [] ; ch.append(c2)
ChAppendKeepInput(ch, i, c2) == Append(ch, c2)

ChAppend(ch, i, c2) == Append(IF i = 0 THEN <<>> ELSE ch, c2)

\* One iteration of the loop over d['backbone'] + d['head'] for layer i with the
\* spec L, from the builder state b = [ch, c2, save]: raised tells an exception
parse_layer(b, i, L, d) ==
    LET args == EvalArgs(L.args, d)
        n == DepthGain(L.n, d.gd)
        known == L.m \in KnownTypes
        reads == known /\ ReadsOK(L.m, L.f, args, b.ch)
        ok == /\ reads
              /\ CtorOK(L.m, CtorArgs(L.m, L.f, args, b.ch, n, d))
              /\ SaveOK(L.f, i)
    IN  IF ~ok
        THEN [raised |-> TRUE, ch |-> b.ch, c2 |-> b.c2, save |-> b.save,
              specargs |-> IF reads THEN SpecArgsAfter(L.m, L.f, args, b.ch)
                           ELSE IF known THEN args ELSE L.args,
              layer |-> <<>>]
        ELSE LET c2 == OutChannels(L.m, L.f, args, b.ch, b.c2, d)
                 rep == RepeatAfter(L.m, n)
             IN  [raised |-> FALSE,
                  ch |-> ChAppend(b.ch, i, c2),
                  c2 |-> c2,
                  save |-> SaveExtend(b.save, L.f.v, i),
                  specargs |-> SpecArgsAfter(L.m, L.f, args, b.ch),
                  layer |-> <<[i |-> i, f |-> L.f, type |-> L.m,
                               copies |-> IF rep > 1 THEN rep ELSE 1,
                               args |-> CtorArgs(L.m, L.f, args, b.ch, n, d)]>>]

(***************************************************************************)
(* Tensor elements: exact rationals <<numerator, denominator>>             *)
(***************************************************************************)

RECURSIVE Gcd(_, _)
Gcd(a, b) == IF b = 0 THEN a ELSE Gcd(b, a % b)

Abs(a) == IF a < 0 THEN -a ELSE a

\* the fraction n / d in lowest terms with a positive denominator
Rat(n, d) ==
    LET sn == IF d < 0 THEN -n ELSE n
        sd == Abs(d)
        g == Gcd(Abs(sn), sd)
    IN  <<sn \div g, sd \div g>>

RInt(k) == <<k, 1>>

RAdd(a, b) == Rat(a[1] * b[2] + b[1] * a[2], a[2] * b[2])

RSub(a, b) == Rat(a[1] * b[2] - b[1] * a[2], a[2] * b[2])

RMul(a, b) == Rat(a[1] * b[1], a[2] * b[2])

\* a / b for b # 0
RDiv(a, b) == Rat(a[1] * b[2], a[2] * b[1])

\* torch.sigmoid on the raw values -2..2, to two decimals
Sigmoid(r) ==
    CASE r = -2 -> Rat(12, 100)
      [] r = -1 -> Rat(27, 100)
      [] r = 0 -> Rat(1, 2)
      [] r = 1 -> Rat(73, 100)
      [] r = 2 -> Rat(88, 100)

(***************************************************************************)
(* Detect: the grid cache and the decoding                                 *)
(***************************************************************************)

\* The detection head that is tried: nc = 1, two scales with the strides the
\* Model computed, two anchors per scale, given here in pixels; self.anchors
\* holds them divided by the stride
DetectHead ==
    [nc |-> 1,
     stride |-> <<8, 16>>,
     pixels |-> <<<<<<10, 13>>, <<16, 30>>>>, <<<<30, 61>>, <<62, 45>>>>>>]

\* self.nl = len(anchors)
HeadNl == Len(DetectHead.pixels)

\* self.na = len(anchors[0]) // 2
HeadNa == Len(DetectHead.pixels[1])

\* self.no = nc + 5
HeadNo == DetectHead.nc + 5

\* self.anchors[i][a] after m.anchors /= m.stride.view(-1, 1, 1); i, a from 1
HeadAnchor(i, a) ==
    <<Rat(DetectHead.pixels[i][a][1], DetectHead.stride[i]), Rat(DetectHead.pixels[i][a][2], DetectHead.stride[i])>>

\* torch.zeros(1): self.grid[i] and self.anchor_grid[i] of a new Detect
ZerosOne == [shape |-> <<1>>, at |-> [c \in {<<0>>} |-> <<RInt(0), RInt(0)>>]]

\* torch.stack((xv, yv), 2) at one grid position
GridCell(xv, yv) == <<RInt(xv), RInt(yv)>>

\* _make_grid(nx, ny, i): the grid, the same for every anchor, keyed by
\* <<row, column>>; yv is the row and xv the column of a position (indexing 'ij')
MakeGrid(nx, ny) ==
    [shape |-> <<1, HeadNa, ny, nx, 2>>,
     at |-> [c \in (0..ny - 1) \X (0..nx - 1) |-> GridCell(c[2], c[1])]]

\* _make_grid(nx, ny, i): the anchor grid, the same at every position, keyed by
\* the anchor
MakeAnchorGrid(nx, ny, i) ==
    [shape |-> <<1, HeadNa, ny, nx, 2>>,
     at |-> [a \in 1..HeadNa |->
               <<RMul(HeadAnchor(i, a)[1], RInt(DetectHead.stride[i])),
                 RMul(HeadAnchor(i, a)[2], RInt(DetectHead.stride[i]))>>]]

\* self.onnx_dynamic or self.grid[i].shape[2:4] != x[i].shape[2:4]
NeedGridRowsOnly(g, dynamic, ny, nx) == dynamic \/ PySlice(g.shape, 2, 3) # <<ny>>

NeedGrid(g, dynamic, ny, nx) == dynamic \/ PySlice(g.shape, 2, 4) # <<ny, nx>>

\* whether a cached tensor broadcasts against y of shape (bs, na, ny, nx, no-slice)
Broadcasts(g, ny, nx) ==
    \/ g.shape = <<1>>
    \/ /\ g.shape[3] \in {1, ny}
       /\ g.shape[4] \in {1, nx}

\* the grid's element that position (yy, xx) of y meets
GridAt(g, yy, xx) ==
    IF g.shape = <<1>> THEN g.at[<<0>>]
    ELSE g.at[<<IF g.shape[3] = 1 THEN 0 ELSE yy, IF g.shape[4] = 1 THEN 0 ELSE xx>>]

\* the anchor grid's element that anchor a meets
AnchorAt(g, a) == IF g.shape = <<1>> THEN g.at[<<0>>] ELSE g.at[a]

\* The output of the scale's convolution self.m[i] after view and permute: the
\* raw value at (anchor a, row yy, column xx, output o), picked by a seed
Raw(seed, i, a, yy, xx, o) == ((seed + i + a + 2 * yy + 3 * xx + o) % 5) - 2

\* y = x[i].sigmoid() at one position: the no outputs of one anchor
SigmoidAt(seed, i, a, yy, xx) == [o \in 1..HeadNo |-> Sigmoid(Raw(seed, i, a, yy, xx, o))]

\* the in-place branch: y[..., 0:2] = ..., then y[..., 2:4] = ...
DecodeInplaceNoOffset(v, g, ag, stride) ==
    LET v1 == [v EXCEPT ![1] = RMul(RAdd(RMul(v[1], RInt(2)), g[1]), RInt(stride)),
                        ![2] = RMul(RAdd(RMul(v[2], RInt(2)), g[2]), RInt(stride))]
    IN  [v1 EXCEPT ![3] = RMul(RMul(RMul(v1[3], RInt(2)), RMul(v1[3], RInt(2))), ag[1]),
                   ![4] = RMul(RMul(RMul(v1[4], RInt(2)), RMul(v1[4], RInt(2))), ag[2])]

DecodeInplace(v, g, ag, stride) ==
    LET v1 == [v EXCEPT
                 ![1] = RMul(RAdd(RSub(RMul(v[1], RInt(2)), Rat(1, 2)), g[1]), RInt(stride)),
                 ![2] = RMul(RAdd(RSub(RMul(v[2], RInt(2)), Rat(1, 2)), g[2]), RInt(stride))]
    IN  [v1 EXCEPT ![3] = RMul(RMul(RMul(v1[3], RInt(2)), RMul(v1[3], RInt(2))), ag[1]),
                   ![4] = RMul(RMul(RMul(v1[4], RInt(2)), RMul(v1[4], RInt(2))), ag[2])]

\* the other branch: xy, wh, then torch.cat((xy, wh, y[..., 4:]), -1)
DecodeCat(v, g, ag, stride) ==
    LET xy == <<RMul(RAdd(RSub(RMul(v[1], RInt(2)), Rat(1, 2)), g[1]), RInt(stride)),
                RMul(RAdd(RSub(RMul(v[2], RInt(2)), Rat(1, 2)), g[2]), RInt(stride))>>
        wh == <<RMul(RMul(RMul(v[3], RInt(2)), RMul(v[3], RInt(2))), ag[1]),
                RMul(RMul(RMul(v[4], RInt(2)), RMul(v[4], RInt(2))), ag[2])>>
    IN  xy \o wh \o SubSeq(v, 5, Len(v))

\* y.view(bs, -1, self.no) of one scale: the predictions in the order anchor,
\* row, column, decoded with the cached grid g and anchor grid ag
DecodeScale(seed, i, ny, nx, g, ag, inplace) ==
    [k \in 1..(HeadNa * ny * nx) |->
        LET a == (k - 1) \div (ny * nx)
            yy == ((k - 1) % (ny * nx)) \div nx
            xx == (k - 1) % nx
            v == SigmoidAt(seed, i, a + 1, yy, xx)
        IN  IF inplace
            THEN DecodeInplace(v, GridAt(g, yy, xx), AnchorAt(ag, a + 1), DetectHead.stride[i])
            ELSE DecodeCat(v, GridAt(g, yy, xx), AnchorAt(ag, a + 1), DetectHead.stride[i])]

\* The feature map of scale i for an image of h x w units of the largest stride
RowsOf(img, i) == img[1] * (DetectHead.stride[HeadNl] \div DetectHead.stride[i])

ColsOf(img, i) == img[2] * (DetectHead.stride[HeadNl] \div DetectHead.stride[i])

(***************************************************************************)
(* Model._descale_pred and Model._clip_augmented                           *)
(***************************************************************************)

\* flips of _forward_augment: None, 2 (up-down), 3 (left-right)
NoFlip == 0

\* the in-place branch on one prediction p[..., :]; img_size is <<height, width>>
DescaleInplaceRows(p, flips, scale, img_size) ==
    LET p1 == [k \in 1..Len(p) |-> IF k <= 4 THEN RDiv(p[k], scale) ELSE p[k]]
    IN  IF flips = 2 THEN [p1 EXCEPT ![2] = RSub(RInt(img_size[1]), p1[2])]
        ELSE IF flips = 3 THEN [p1 EXCEPT ![1] = RSub(RInt(img_size[1]), p1[1])]
        ELSE p1

DescaleInplace(p, flips, scale, img_size) ==
    LET p1 == [k \in 1..Len(p) |-> IF k <= 4 THEN RDiv(p[k], scale) ELSE p[k]]
    IN  IF flips = 2 THEN [p1 EXCEPT ![2] = RSub(RInt(img_size[1]), p1[2])]
        ELSE IF flips = 3 THEN [p1 EXCEPT ![1] = RSub(RInt(img_size[2]), p1[1])]
        ELSE p1

\* the other branch on one prediction: x, y, wh, then torch.cat
DescaleCat(p, flips, scale, img_size) ==
    LET x0 == RDiv(p[1], scale)
        y0 == RDiv(p[2], scale)
        wh == <<RDiv(p[3], scale), RDiv(p[4], scale)>>
        y1 == IF flips = 2 THEN RSub(RInt(img_size[1]), y0) ELSE y0
        x1 == IF flips # 2 /\ flips = 3 THEN RSub(RInt(img_size[2]), x0) ELSE x0
    IN  <<x1, y1>> \o wh \o SubSeq(p, 5, Len(p))

\* _descale_pred(p, flips, scale, img_size) on the tensor p of predictions
descale_pred(p, flips, scale, img_size, inplace) ==
    [k \in 1..Len(p) |->
        IF inplace THEN DescaleInplace(p[k], flips, scale, img_size)
        ELSE DescaleCat(p[k], flips, scale, img_size)]

RECURSIVE Pow4(_)
Pow4(k) == IF k = 0 THEN 1 ELSE 4 * Pow4(k - 1)

\* sum(4 ** x for x in range(n))
RECURSIVE SumPow4(_)
SumPow4(n) == IF n = 0 THEN 0 ELSE SumPow4(n - 1) + Pow4(n - 1)

\* sum(4 ** (nl - 1 - x) for x in range(n))
RECURSIVE SumPow4Down(_, _)
SumPow4Down(nl, n) == IF n = 0 THEN 0 ELSE SumPow4Down(nl, n - 1) + Pow4(nl - 1 - (n - 1))

\* e = 1, the exclude layer count
ExcludeLayers == 1

\* y[0] = y[0][:, :-i]
ClipLargeHead(pass, i) == PySlice(pass, i, Len(pass))

ClipLarge(pass, i) == PySlice(pass, 0, -i)

\* y[-1] = y[-1][:, i:]
ClipSmall(pass, i) == PySlice(pass, i, Len(pass))

\* _clip_augmented(y) for a Detect of nl scales; a pass is its predictions in order
clip_augmented(y, nl) ==
    LET g == SumPow4(nl)
        i0 == (Len(y[1]) \div g) * SumPow4(ExcludeLayers)
        y1 == [y EXCEPT ![1] = ClipLarge(y[1], i0)]
        i1 == (Len(PyIndex(y1, -1)) \div g) * SumPow4Down(nl, ExcludeLayers)
    IN  [y1 EXCEPT ![Len(y1)] = ClipSmall(PyIndex(y1, -1), i1)]

(***************************************************************************)
(* Model.fuse                                                              *)
(***************************************************************************)

\* A module of self.model.modules(): its type, the attributes it has, its deploy
\* flag and the method its forward is bound to
Module(type, attrs, deploy, fwd) ==
    [type |-> type, attrs |-> attrs, deploy |-> deploy, fwd |-> fwd]

\* the attributes of the Model itself that hasattr(self, ...) can find
ModelAttrs == {"model", "save", "yaml", "names", "inplace", "stride"}

\* hasattr(self, 'rbr_identity') and hasattr(self, 'id_tensor'): self is the Model
TrainingOnlyFound(m) == {a \in {"rbr_identity", "id_tensor"} : a \in ModelAttrs}

\* the branch for Conv and DWConv with a bn
FuseConv(m) ==
    IF m.type \in {"Conv", "DWConv"} /\ "bn" \in m.attrs
    THEN [m EXCEPT !.attrs = @ \ {"bn"}, !.fwd = "forward_fuse"]
    ELSE m

\* the branch for a RepVGGBlock with an rbr_1x1: rbr_dense becomes the
\* re-parameterized convolution
FuseRepVGG(m) ==
    IF m.type = "RepVGGBlock" /\ "rbr_1x1" \in m.attrs
    THEN [m EXCEPT !.attrs = ((@ \ {"rbr_1x1"}) \ TrainingOnlyFound(m)) \ {"se"},
                   !.deploy = TRUE,
                   !.fwd = "fusevggforward"]
    ELSE m

\* the branch for CBH with a bn
FuseCBH(m) ==
    IF m.type = "CBH" /\ "bn" \in m.attrs
    THEN [m EXCEPT !.attrs = @ \ {"bn"}, !.fwd = "fuseforward"]
    ELSE m

\* one iteration of the loop over self.model.modules()
FuseModule(m) == FuseCBH(FuseRepVGG(FuseConv(m)))

\* fuse(): the loop over the modules
fuse(mods) == [k \in 1..Len(mods) |-> FuseModule(mods[k])]

(***************************************************************************)
(* Bounds and inputs of the build                                          *)
(***************************************************************************)

\* the longest layer list (backbone + head) that is built
MaxLayers == 3

\* how many times a Model is built from the same specification dict
MaxBuilds == 3

\* the layer specs [from, number, module, args] of the specifications tried
Layer(f, n, m, args) == [f |-> f, n |-> n, m |-> m, args |-> args]

ConvSpecs == {Layer(f, 1, "Conv", <<IntV(16), IntV(3)>>) : f \in {One(-1), One(0), One(2)}}

NeXtSpecs ==
    {Layer(f, 1, "ConvNeXt", <<IntV(24)>>) :
        f \in {One(-1), One(-2), One(0), One(1), One(2)}}

ConcatSpecs ==
    {Layer(f, 1, "Concat", <<IntV(1)>>) :
        f \in {Many(<<-1, 0>>), Many(<<-1, -2>>), Many(<<-1, 2>>), One(-1)}}

DetectSpecs ==
    {Layer(f, 1, "Detect", <<StrV("nc"), StrV("anchors")>>) :
        f \in {Many(<<-1, 0>>), Many(<<0>>)}}

OtherSpecs ==
    {Layer(One(-1), 3, "Conv", <<IntV(32)>>),
     Layer(One(-1), 3, "C3", <<IntV(32)>>),
     Layer(One(-1), 2, "MobileOne", <<IntV(32)>>),
     Layer(One(-1), 1, "nn.BatchNorm2d", <<>>),
     Layer(One(-2), 1, "nn.BatchNorm2d", <<>>),
     Layer(One(-1), 1, "nn.Upsample", <<StrV("None"), IntV(2), StrV("nearest")>>),
     Layer(One(0), 1, "nn.Upsample", <<StrV("None"), IntV(2), StrV("nearest")>>),
     Layer(One(-1), 1, "Foo", <<>>)}

\* the layer specs tried by the builds, by the repeated builds and by the runs
LayerSpecs ==
    {L : L \in ConvSpecs \cup NeXtSpecs \cup ConcatSpecs \cup DetectSpecs \cup OtherSpecs}

RebuildSpecs ==
    {L : L \in {K \in ConvSpecs \cup NeXtSpecs : K.f \in {One(-1), One(0)}} \cup DetectSpecs}

RunSpecs == {L : L \in ConvSpecs \cup NeXtSpecs \cup ConcatSpecs}

\* (depth_multiple, width_multiple) of the specification dicts that are tried
Multiples == {<<<<1, 3>>, <<1, 2>>>>, <<<<1, 1>>, <<1, 1>>>>}

\* the (ch, nc, anchors) arguments of Model(cfg, ch, nc, anchors); 0 is None
ModelArgs == {<<3, 0, 0>>, <<3, 5, 0>>, <<3, 0, 1>>}

(***************************************************************************)
(* State                                                                   *)
(***************************************************************************)

VARIABLES
    heap,     \* the dict objects: "yaml" is self.yaml, "copy" the deep copy
    dref,     \* the dict object parse_model works on
    sealed,   \* whether the layer list of the specification is complete
    pc,       \* where the build is: "new", "loop", "built", "raised"
    pi,       \* parse_model: the loop index i
    ch,       \* parse_model: the channel trace
    c2,       \* parse_model: the output channels of the current layer
    save,     \* parse_model: the save list being collected
    layers,   \* parse_model: the layers built
    model,    \* self.model, self.save of the Model built last
    hist,     \* per build: the specification's scalars and what the build gave
    thop,     \* whether the optional FLOPs profiler was imported
    fpc,      \* where the _forward_once call is: "idle", "run", "returned", "raised"
    flags,    \* _forward_once: profile, visualize
    fi,       \* _forward_once: how many layers have run
    x,        \* _forward_once: the current tensor
    y,        \* _forward_once: the output history
    inp,      \* _forward_once: what the layer run last was given
    dt,       \* _forward_once: the profile timings
    diag,     \* _forward_once: the diagnostics' failures met in this call
    training,     \* Detect: self.training
    onnx_dynamic, \* Detect: self.onnx_dynamic
    inplace,      \* self.inplace of the Model and of its Detect
    grid,         \* Detect: self.grid, per scale
    anchor_grid,  \* Detect: self.anchor_grid, per scale
    th,           \* Detect.forward: the calls in progress, per caller
    aug,          \* the augmented-inference helper that is applied, and its result
    net           \* Model.fuse: the modules of self.model and the calls of fuse

buildVars == <<heap, dref, sealed, pc, pi, ch, c2, save, layers, model, hist>>

runVars == <<thop, fpc, flags, fi, x, y, inp, dt, diag>>

detVars == <<training, onnx_dynamic, inplace, grid, anchor_grid, th>>

vars == <<buildVars, runVars, detVars, aug, net>>

\* d['backbone'] + d['head'] of a dict object
Layers(d) == d.layers

NoModel == [layers |-> <<>>, save |-> <<>>, ok |-> FALSE]

\* no layer has been given an input yet
NoInput == [i |-> -1, given |-> <<>>]

RunIdle ==
    /\ fpc = "idle"
    /\ flags = [profile |-> FALSE, visualize |-> FALSE]
    /\ fi = 0
    /\ x = <<>>
    /\ y = <<>>
    /\ inp = NoInput
    /\ dt = 0
    /\ diag = {}

\* a new Model has no call of _forward_once in flight
RunReset ==
    /\ fpc' = "idle"
    /\ flags' = [profile |-> FALSE, visualize |-> FALSE]
    /\ fi' = 0
    /\ x' = <<>>
    /\ y' = <<>>
    /\ inp' = NoInput
    /\ dt' = 0
    /\ diag' = {}

(***************************************************************************)
(* Model.__init__ and parse_model                                          *)
(***************************************************************************)

InitBuild(mu) ==
    /\ heap = [r \in {"yaml", "copy"} |->
                 [nc |-> 3, anchors |-> AnchV(2, 2), gd |-> mu[1], gw |-> mu[2],
                  ch |-> 0, layers |-> <<>>]]
    /\ dref = "yaml"
    /\ sealed = FALSE
    /\ pc = "new"
    /\ pi = 0
    /\ ch = <<>>
    /\ c2 = 0
    /\ save = <<>>
    /\ layers = <<>>
    /\ model = NoModel
    /\ hist = <<>>

\* the dict object handed to parse_model: a copy of its own
DeepCopyAliased(r) == r

deepcopy(r) == "copy"

\* self.yaml after the lines that override its ch, nc and anchors entries
YamlOverride(d, chArg, ncArg, anchorsArg) ==
    LET d1 == [d EXCEPT !.ch = IF d.ch # 0 THEN d.ch ELSE chArg]
        d2 == IF ncArg # 0 /\ ncArg # d1.nc THEN [d1 EXCEPT !.nc = ncArg] ELSE d1
    IN  IF anchorsArg # 0 THEN [d2 EXCEPT !.anchors = IntV(anchorsArg)] ELSE d2

\* Model.__init__ up to the call of parse_model, and parse_model's first lines
ModelInit(chArg, ncArg, anchorsArg) ==
    /\ pc \in {"new", "built", "raised"}
    /\ fpc \in {"idle", "returned", "raised"}
    /\ Len(hist) < MaxBuilds
    /\ LET yaml == YamlOverride(heap["yaml"], chArg, ncArg, anchorsArg)
           r == deepcopy("yaml")
       IN  /\ heap' = [heap EXCEPT !["yaml"] = yaml, ![r] = yaml]
           /\ dref' = r
           /\ ch' = <<yaml.ch>>
           /\ c2' = yaml.ch
    /\ pc' = "loop"
    /\ pi' = 0
    /\ save' = <<>>
    /\ layers' = <<>>
    /\ model' = NoModel
    /\ RunReset
    /\ UNCHANGED <<sealed, hist, thop, detVars, aug, net>>

\* the specification's scalars as the build read them, and what the build gave
Outcome(d, raised, chs, sv) ==
    [nc |-> d.nc, anchors |-> d.anchors, chin |-> d.ch,
     raised |-> raised, at |-> IF raised THEN pi ELSE -1,
     chs |-> chs, save |-> sv]

\* One iteration of parse_model's loop. While the layer list is not complete the
\* layer spec at position i is an input: it joins the specification, and the copy.
ParseLayer(tried) ==
    /\ pc = "loop"
    /\ \E L \in IF pi < Len(Layers(heap[dref])) THEN {Layers(heap[dref])[pi + 1]}
                ELSE tried :
          LET known == pi < Len(Layers(heap[dref]))
              grown == [r \in DOMAIN heap |->
                          IF known THEN heap[r]
                          ELSE [heap[r] EXCEPT !.layers = Append(@, L)]]
              d == grown[dref]
              res == parse_layer([ch |-> ch, c2 |-> c2, save |-> save], pi,
                                 Layers(d)[pi + 1], d)
          IN  /\ ~known => ~sealed /\ pi < MaxLayers
              /\ heap' = [grown EXCEPT ![dref].layers[pi + 1].args = res.specargs]
              /\ ch' = res.ch
              /\ c2' = res.c2
              /\ save' = res.save
              /\ layers' = layers \o res.layer
              /\ IF res.raised
                 THEN /\ pc' = "raised"
                      /\ pi' = pi
                      /\ sealed' = TRUE
                      /\ hist' = Append(hist, Outcome(d, TRUE, <<>>, <<>>))
                 ELSE /\ pc' = "loop"
                      /\ pi' = pi + 1
                      /\ UNCHANGED <<sealed, hist>>
    /\ UNCHANGED <<dref, model, runVars, detVars, aug, net>>

\* return nn.Sequential(*layers), sorted(save): the loop is over when the layer
\* list is; a specification still open may end after any layer but none
ParseReturn ==
    /\ pc = "loop"
    /\ IF sealed THEN pi = Len(Layers(heap[dref])) ELSE pi >= 1
    /\ pc' = "built"
    /\ sealed' = TRUE
    /\ model' = [layers |-> layers, save |-> Sorted(save), ok |-> TRUE]
    /\ hist' = Append(hist, Outcome(heap[dref], FALSE, ch, Sorted(save)))
    /\ UNCHANGED <<heap, dref, pi, ch, c2, save, layers, runVars, detVars, aug, net>>

(***************************************************************************)
(* Model._forward_once                                                     *)
(***************************************************************************)

\* a tensor is known by the layer whose output it is
ImageT == -1

NoneT == -2

\* whether the reads y[j] of a layer with 'from' f raise no IndexError
HistoryOK(f, hy) ==
    \A k \in 1..Len(f.v) : f.v[k] # -1 => PyIndexOK(Len(hy), f.v[k])

\* x = y[m.f] if isinstance(m.f, int) else [x if j == -1 else y[j] for j in m.f];
\* the layer's input as a list of tensors
LayerInput(f, hx, hy) ==
    [k \in 1..Len(f.v) |-> IF f.v[k] = -1 THEN hx ELSE PyIndex(hy, f.v[k])]

\* y.append(x if m.i in self.save else None)
HistoryEntry(out, i, sv) == IF i \in SeqToSet(sv) THEN out ELSE NoneT

\* o = thop.profile(...)[0] / 1E9 * 2 if thop else 0, known as zero or not
Flops(present) == IF present THEN 1 ELSE 0

ForwardStart(profile, visualize) ==
    /\ pc = "built"
    /\ fpc \in {"idle", "returned", "raised"}
    /\ fpc' = "run"
    /\ flags' = [profile |-> profile, visualize |-> visualize]
    /\ fi' = 0
    /\ x' = ImageT
    /\ y' = <<>>
    /\ inp' = NoInput
    /\ dt' = 0
    /\ diag' = {}
    /\ UNCHANGED <<buildVars, thop, detVars, aug, net>>

\* One iteration of the loop over self.model. The profiled runs of the layer and
\* the feature visualization are calls out of this file that may raise.
ForwardLayer ==
    /\ fpc = "run"
    /\ fi < Len(model.layers)
    /\ LET m == model.layers[fi + 1]
           given == [i |-> m.i, given |-> LayerInput(m.f, x, y)]
       IN  \E pfail \in {FALSE, flags.profile}, vfail \in {FALSE, flags.visualize} :
              IF ~HistoryOK(m.f, y)
              THEN /\ fpc' = "raised"
                   /\ UNCHANGED <<fi, x, y, inp, dt, diag>>
                   /\ ~pfail /\ ~vfail
              ELSE IF pfail
              THEN /\ fpc' = "raised"
                   /\ diag' = diag \cup {"profile"}
                   /\ inp' = given
                   /\ UNCHANGED <<fi, x, y, dt>>
                   /\ ~vfail
              ELSE IF NoneT \in SeqToSet(given.given)
              THEN /\ fpc' = "raised"
                   /\ inp' = given
                   /\ dt' = IF flags.profile THEN dt + 1 ELSE dt
                   /\ UNCHANGED <<fi, x, y, diag>>
                   /\ ~vfail
              ELSE /\ inp' = given
                   /\ dt' = IF flags.profile THEN dt + 1 ELSE dt
                   /\ x' = m.i
                   /\ y' = Append(y, HistoryEntry(m.i, m.i, model.save))
                   /\ fi' = fi + 1
                   /\ IF vfail
                      THEN fpc' = "raised" /\ diag' = diag \cup {"visualize"}
                      ELSE fpc' = "run" /\ UNCHANGED diag
    /\ UNCHANGED <<buildVars, thop, flags, detVars, aug, net>>

\* return x
ForwardReturn ==
    /\ fpc = "run"
    /\ fi = Len(model.layers)
    /\ fpc' = "returned"
    /\ UNCHANGED <<buildVars, thop, flags, fi, x, y, inp, dt, diag, detVars, aug, net>>

(***************************************************************************)
(* Detect.forward                                                          *)
(***************************************************************************)

\* the largest image that is tried, in units of the largest stride
MaxImage == 2

\* the images <<height, width>> that are tried
Images == {<<h, w>> : h \in 1..MaxImage, w \in 1..MaxImage}

\* the seeds of the raw outputs that are tried
Seeds == {0, 1}

\* the callers of the one Detect
Callers == {1, 2}

\* no call of the caller is in progress
NoCall ==
    [pc |-> "idle", img |-> <<0, 0>>, seed |-> 0, i |-> 0,
     made |-> <<>>, used |-> <<>>, z |-> <<>>, xs |-> <<>>, out |-> [kind |-> "none"]]

\* the shape of x[i] after view and permute, for a batch of one image
RawShape(img, i) == <<1, HeadNa, RowsOf(img, i), ColsOf(img, i), HeadNo>>

\* return x if self.training else (torch.cat(z, 1), x)
ForwardResultPair(train, z, xs) == [kind |-> "pair", z |-> z, x |-> xs]

ForwardResult(train, z, xs) ==
    IF train THEN [kind |-> "x", x |-> xs] ELSE [kind |-> "pair", z |-> z, x |-> xs]

\* A new Detect in inference mode that nobody calls
DetectIdle ==
    /\ training = FALSE
    /\ onnx_dynamic = FALSE
    /\ inplace = TRUE
    /\ grid = [i \in 1..HeadNl |-> ZerosOne]
    /\ anchor_grid = [i \in 1..HeadNl |-> ZerosOne]
    /\ th = [t \in Callers |-> NoCall]

\* forward(x): z = [] and the loop begins; in training mode every iteration only
\* replaces x[i] by its convolution, viewed and permuted, and the loop is over in
\* one step
DetectCall(t, img, seed) ==
    /\ th[t].pc \in {"idle", "returned", "raised"}
    /\ th' = [th EXCEPT ![t] = [pc |-> IF training THEN "return" ELSE "grid",
                                img |-> img, seed |-> seed,
                                i |-> IF training THEN HeadNl + 1 ELSE 1,
                                made |-> <<>>, used |-> <<>>, z |-> <<>>,
                                xs |-> IF training
                                       THEN [k \in 1..HeadNl |-> RawShape(img, k)]
                                       ELSE <<>>,
                                out |-> [kind |-> "none"]]]
    /\ UNCHANGED <<buildVars, runVars, aug, net>>
    /\ UNCHANGED <<training, onnx_dynamic, inplace, grid, anchor_grid>>

\* x[i] is replaced by its convolution, viewed and permuted; then the test of the
\* cached grid of scale i, and _make_grid; made records the shape that was tested
\* and whether _make_grid was invoked
DetectGrid(t) ==
    /\ th[t].pc = "grid"
    /\ LET i == th[t].i
           ny == RowsOf(th[t].img, i)
           nx == ColsOf(th[t].img, i)
           need == NeedGrid(grid[i], onnx_dynamic, ny, nx)
       IN  /\ grid' = IF need THEN [grid EXCEPT ![i] = MakeGrid(nx, ny)] ELSE grid
           /\ anchor_grid' = IF need
                             THEN [anchor_grid EXCEPT ![i] = MakeAnchorGrid(nx, ny, i)]
                             ELSE anchor_grid
           /\ th' = [th EXCEPT ![t].pc = "decode",
                               ![t].xs = Append(@, RawShape(th[t].img, i)),
                               ![t].made = Append(@, [cached |-> grid[i].shape,
                                                      made |-> need])]
    /\ UNCHANGED <<buildVars, runVars, aug, net>>
    /\ UNCHANGED <<training, onnx_dynamic, inplace>>

\* the decoding of scale i with self.grid[i] and self.anchor_grid[i] as they are
\* now, and z.append; used records the two tensors read. Shapes that do not
\* broadcast raise.
DetectDecode(t) ==
    /\ th[t].pc = "decode"
    /\ LET i == th[t].i
           ny == RowsOf(th[t].img, i)
           nx == ColsOf(th[t].img, i)
           g == grid[i]
           ag == anchor_grid[i]
           read == Append(th[t].used, [grid |-> g, anchor_grid |-> ag])
       IN  IF Broadcasts(g, ny, nx) /\ Broadcasts(ag, ny, nx)
           THEN th' = [th EXCEPT ![t].used = read,
                                 ![t].z = @ \o DecodeScale(th[t].seed, i, ny, nx, g, ag,
                                                           inplace),
                                 ![t].i = i + 1,
                                 ![t].pc = IF i = HeadNl THEN "return" ELSE "grid"]
           ELSE th' = [th EXCEPT ![t].used = read, ![t].pc = "raised"]
    /\ UNCHANGED <<buildVars, runVars, aug, net>>
    /\ UNCHANGED <<training, onnx_dynamic, inplace, grid, anchor_grid>>

\* return x if self.training else (torch.cat(z, 1), x)
DetectReturn(t) ==
    /\ th[t].pc = "return"
    /\ th' = [th EXCEPT ![t].pc = "returned",
                        ![t].out = ForwardResult(training, th[t].z, th[t].xs)]
    /\ UNCHANGED <<buildVars, runVars, aug, net>>
    /\ UNCHANGED <<training, onnx_dynamic, inplace, grid, anchor_grid>>

\* model.train() or model.eval() between calls: the mode is set from outside
SetTraining(b) ==
    /\ b # training
    /\ \A t \in Callers : th[t].pc \in {"idle", "returned", "raised"}
    /\ training' = b
    /\ UNCHANGED <<buildVars, runVars, aug, net>>
    /\ UNCHANGED <<onnx_dynamic, inplace, grid, anchor_grid, th>>

(***************************************************************************)
(* Augmented inference: the two helpers applied to inputs                  *)
(***************************************************************************)

\* the longest tensor of predictions that _descale_pred is given
MaxBoxes == 2

\* the most predictions of a pass that _clip_augmented is given
MaxPreds == 45

\* the most detection scales of the Detect that _clip_augmented reads
MaxScales == 3

\* predictions (x, y, w, h, objectness, class) that are tried
Coords == {0, 10, 33}

Preds == {<<RInt(px), RInt(py), RInt(4), RInt(6), Rat(1, 2), Rat(1, 4)>> :
             px \in Coords, py \in Coords}

Tensors == {p : p \in UNION {[1..n -> Preds] : n \in 1..MaxBoxes}}

\* s and f of _forward_augment, and the up-down flip
Scales == {RInt(1), Rat(83, 100), Rat(67, 100)}

Flips == {NoFlip, 2, 3}

ImageSizes == {<<480, 640>>, <<640, 480>>}

\* a pass of n predictions, each named by its place
Pass(n) == [k \in 1..n |-> k]

NoAug == [op |-> "none"]

DescaleInputs ==
    {[op |-> "descale", p |-> p, flips |-> f, scale |-> sc, img_size |-> sz,
      out |-> <<>>, done |-> FALSE] :
        p \in Tensors, f \in Flips, sc \in Scales, sz \in ImageSizes}

ClipInputs ==
    {[op |-> "clip", nl |-> nl, y |-> <<Pass(n0), Pass(n1), Pass(n2)>>,
      out |-> <<>>, done |-> FALSE] :
        nl \in 1..MaxScales, n0 \in 0..MaxPreds, n1 \in {0, 21}, n2 \in 0..MaxPreds}

\* yi = self._descale_pred(yi, fi, si, img_size)
DescalePred ==
    /\ aug.op = "descale"
    /\ ~aug.done
    /\ aug' = [aug EXCEPT !.done = TRUE,
                          !.out = descale_pred(aug.p, aug.flips, aug.scale, aug.img_size,
                                               inplace)]
    /\ UNCHANGED <<buildVars, runVars, detVars, net>>

\* y = self._clip_augmented(y)
ClipAugmented ==
    /\ aug.op = "clip"
    /\ ~aug.done
    /\ aug' = [aug EXCEPT !.done = TRUE, !.out = clip_augmented(aug.y, aug.nl)]
    /\ UNCHANGED <<buildVars, runVars, detVars, net>>

(***************************************************************************)
(* Model.fuse on the modules of a Model                                    *)
(***************************************************************************)

\* the most modules of a Model that is fused, and the most calls of fuse
MaxModules == 2

MaxFuses == 2

\* the modules that are tried: with and without a normalization sub-layer, a
\* RepVGGBlock with its branches or already deployed, and a module fuse skips
ModuleKinds ==
    {Module(t, {"conv", "act"} \cup b, FALSE, "forward") :
        t \in {"Conv", "DWConv", "CBH"}, b \in {{}, {"bn"}}}
    \cup {Module("RepVGGBlock", {"rbr_dense", "rbr_1x1", "se"} \cup b, FALSE, "forward") :
            b \in {{}, {"rbr_identity"}, {"rbr_identity", "id_tensor"}}}
    \cup {Module("RepVGGBlock", {"rbr_reparam", "se"}, TRUE, "forward"),
          Module("Concat", {}, FALSE, "forward")}

ModuleLists == {ms : ms \in UNION {[1..n -> ModuleKinds] : n \in 1..MaxModules}}

\* no Model whose modules are looked at
NoNet == [mods |-> <<>>, built |-> <<>>, prev |-> <<>>, fuses |-> 0]

\* self.fuse(): built keeps the modules as they were built, prev the modules as
\* this call found them
Fuse ==
    /\ net.mods # <<>>
    /\ net.fuses < MaxFuses
    /\ net' = [net EXCEPT !.mods = fuse(net.mods), !.prev = net.mods, !.fuses = @ + 1]
    /\ UNCHANGED <<buildVars, runVars, detVars, aug>>

(***************************************************************************)
(* Specifications                                                          *)
(***************************************************************************)

\* a specification dict before any Model is built from it; thop is not imported
InitNoRun ==
    /\ \E mu \in Multiples : InitBuild(mu)
    /\ thop = FALSE
    /\ RunIdle
    /\ DetectIdle
    /\ aug = NoAug
    /\ net = NoNet

\* the same, with or without the optional profiler
InitRun ==
    /\ \E mu \in Multiples : InitBuild(mu)
    /\ thop \in BOOLEAN
    /\ RunIdle
    /\ DetectIdle
    /\ aug = NoAug
    /\ net = NoNet

\* One build of a Model from each specification
NextBuild ==
    \/ ModelInit(3, 0, 0) /\ hist = <<>>
    \/ ParseLayer(LayerSpecs)
    \/ ParseReturn

SpecBuild == InitNoRun /\ [][NextBuild]_vars

\* Builds of a Model, again and again from the same specification dict
NextRebuild ==
    \/ \E a \in ModelArgs : ModelInit(a[1], a[2], a[3])
    \/ ParseLayer(RebuildSpecs)
    \/ ParseReturn

SpecRebuild == InitNoRun /\ [][NextRebuild]_vars

\* One build of a Model, and calls of _forward_once on it
NextRun ==
    \/ ModelInit(3, 0, 0) /\ hist = <<>>
    \/ ParseLayer(RunSpecs)
    \/ ParseReturn
    \/ \E p \in BOOLEAN, v \in BOOLEAN : ForwardStart(p, v)
    \/ ForwardLayer
    \/ ForwardReturn

SpecRun == InitRun /\ [][NextRun]_vars

\* no Model is built or run
NoBuild ==
    /\ InitBuild(<<<<1, 1>>, <<1, 1>>>>)
    /\ thop = FALSE
    /\ RunIdle

\* One caller of a new Detect, in either mode, with or without onnx_dynamic
InitDetect ==
    /\ NoBuild
    /\ training \in BOOLEAN
    /\ onnx_dynamic \in BOOLEAN
    /\ inplace \in BOOLEAN
    /\ grid = [i \in 1..HeadNl |-> ZerosOne]
    /\ anchor_grid = [i \in 1..HeadNl |-> ZerosOne]
    /\ th = [t \in Callers |-> NoCall]
    /\ aug = NoAug
    /\ net = NoNet

NextDetect ==
    \/ \E img \in Images, seed \in Seeds : DetectCall(1, img, seed)
    \/ DetectGrid(1)
    \/ DetectDecode(1)
    \/ DetectReturn(1)
    \/ \E b \in BOOLEAN : SetTraining(b)

SpecDetect == InitDetect /\ [][NextDetect]_vars

\* the image of each of two concurrent callers: the widths differ
ConcImage(t) == <<1, t>>

\* Two callers of one Detect in inference mode, their steps interleaved
InitConc ==
    /\ NoBuild
    /\ training = FALSE
    /\ onnx_dynamic = FALSE
    /\ inplace \in BOOLEAN
    /\ grid = [i \in 1..HeadNl |-> ZerosOne]
    /\ anchor_grid = [i \in 1..HeadNl |-> ZerosOne]
    /\ th = [t \in Callers |-> NoCall]
    /\ aug = NoAug
    /\ net = NoNet

NextConc ==
    \/ \E t \in Callers : DetectCall(t, ConcImage(t), 0)
    \/ \E t \in Callers : DetectGrid(t)
    \/ \E t \in Callers : DetectDecode(t)
    \/ \E t \in Callers : DetectReturn(t)

SpecConc == InitConc /\ [][NextConc]_vars

\* The helpers of augmented inference, each applied to an input
InitAug ==
    /\ NoBuild
    /\ training = FALSE
    /\ onnx_dynamic = FALSE
    /\ inplace \in BOOLEAN
    /\ grid = [i \in 1..HeadNl |-> ZerosOne]
    /\ anchor_grid = [i \in 1..HeadNl |-> ZerosOne]
    /\ th = [t \in Callers |-> NoCall]
    /\ aug \in {a : a \in DescaleInputs \cup ClipInputs}
    /\ net = NoNet

NextAug ==
    \/ DescalePred
    \/ ClipAugmented

SpecAug == InitAug /\ [][NextAug]_vars

\* A Model with some modules, fused once and again
InitFuse ==
    /\ NoBuild
    /\ DetectIdle
    /\ aug = NoAug
    /\ \E ms \in ModuleLists : net = [mods |-> ms, built |-> ms, prev |-> ms, fuses |-> 0]

NextFuse == Fuse

SpecFuse == InitFuse /\ [][NextFuse]_vars

(***************************************************************************)
(* Properties of the build and of the execution engine                     *)
(***************************************************************************)

\* the absolute index of the layer that source x of layer i denotes
Denotes(src, i) == IF src >= 0 THEN src ELSE i + src

\* the sources of the k-th built layer of the Model
SourcesOf(k) == model.layers[k].f.v

\* C1: when parse_model returns, every source x other than -1 of every layer i
\* has the absolute index it denotes (x, or i + x for a negative x) in the
\* returned save list.
C1_SourcesInSaveList ==
    pc = "built" =>
        \A k \in 1..Len(model.layers) : \A j \in 1..Len(SourcesOf(k)) :
            SourcesOf(k)[j] # -1 =>
                Denotes(SourcesOf(k)[j], k - 1) \in SeqToSet(model.save)

\* C2: parse_model never returns for a layer list in which some layer i has a
\* source that names an index >= i.
C2_ForwardReferenceRaises ==
    pc = "built" =>
        \A k \in 1..Len(model.layers) : \A j \in 1..Len(SourcesOf(k)) :
            SourcesOf(k)[j] < k - 1

\* C6: two builds that read the same nc, anchors and input channels from the
\* specification dict, whose layer lists the callers never change, give the same
\* result: both raise at the same layer, or both return the same output-channel
\* sequence and the same save list.
C6_RepeatedBuildsAgree ==
    \A a \in 1..Len(hist) : \A b \in 1..Len(hist) :
        (/\ hist[a].nc = hist[b].nc
         /\ hist[a].anchors = hist[b].anchors
         /\ hist[a].chin = hist[b].chin) => hist[a] = hist[b]

\* three builds of a specification with a detection head, whose first build changed
\* the head's argument list in its copy of the specification, agree
C6_Witness ==
    /\ Len(hist) >= 3
    /\ pc = "built"
    /\ ~hist[1].raised
    /\ hist[1] = hist[3]
    /\ Len(hist[1].chs) >= 2
    /\ \E k \in 1..Len(Layers(heap["copy"])) :
          /\ Layers(heap["copy"])[k].m = "Detect"
          /\ Layers(heap["copy"])[k].args # Layers(heap["yaml"])[k].args

\* what a layer i is to be given for its source x: the previous result for -1
\* (the image for the first layer), else the output of the layer that x denotes
Expected(src, i) ==
    IF src = -1 THEN (IF i = 0 THEN ImageT ELSE i - 1) ELSE Denotes(src, i)

\* C7: during a call of _forward_once the history slot of layer k holds layer
\* k's output if k is in the save list and the absent value if not, and the
\* input a layer is given is, source by source, the output of the layer the source
\* denotes (for -1 the result of the layer just before), never the absent value.
C7_HistoryFeedsSources ==
    /\ \A k \in 1..Len(y) :
          y[k] = IF k - 1 \in SeqToSet(model.save) THEN k - 1 ELSE NoneT
    /\ inp.i >= 0 =>
          \A j \in 1..Len(inp.given) :
              /\ inp.given[j] # NoneT
              /\ inp.given[j] = Expected(SourcesOf(inp.i + 1)[j], inp.i)

\* a call has returned after a layer took the previous result and a saved, not
\* adjacent output together, while another slot of the history was left absent
C7_Witness ==
    /\ fpc = "returned"
    /\ inp.i = 2
    /\ SourcesOf(3) = <<-1, -2>>
    /\ inp.given = <<1, 0>>
    /\ y = <<0, NoneT, NoneT>>

\* C8: a failure inside _profile_one_layer or feature_visualization does not
\* end the call of _forward_once with an exception.
C8_DiagnosticsContained == diag # {} => fpc # "raised"

(***************************************************************************)
(* Properties of the detection head                                        *)
(***************************************************************************)

\* the (height, width) of a cached grid's shape: a new Detect's has none
CachedSize(shape) == IF Len(shape) >= 4 THEN <<shape[3], shape[4]>> ELSE <<>>

\* the feature map's (ny, nx) of scale k in the call of caller t
OwnSize(t, k) == <<RowsOf(th[t].img, k), ColsOf(th[t].img, k)>>

\* C3: in a sequence of inference calls, _make_grid is invoked for a scale
\* exactly when onnx_dynamic is set or the cached grid's (height, width) is not
\* the feature map's (ny, nx), so never on a cache hit with onnx_dynamic unset;
\* and the grid used for decoding has the spatial size (ny, nx), the x
\* coordinates 0..nx-1 along its columns and the y coordinates 0..ny-1 along
\* its rows.
C3_GridCache ==
    /\ \A k \in 1..Len(th[1].made) :
          th[1].made[k].made <=>
             (onnx_dynamic \/ CachedSize(th[1].made[k].cached) # OwnSize(1, k))
    /\ \A k \in 1..Len(th[1].used) :
          LET g == th[1].used[k].grid
              ny == OwnSize(1, k)[1]
              nx == OwnSize(1, k)[2]
          IN  /\ CachedSize(g.shape) = <<ny, nx>>
              /\ DOMAIN g.at = (0..ny - 1) \X (0..nx - 1)
              /\ \A c \in DOMAIN g.at : g.at[c] = <<<<c[2], 1>>, <<c[1], 1>>>>
              /\ {g.at[c][1][1] : c \in DOMAIN g.at} = 0..nx - 1
              /\ {g.at[c][2][1] : c \in DOMAIN g.at} = 0..ny - 1

\* a second call with the feature maps of the first found the grid of scale 1
\* cached and did not rebuild it
C3_Witness ==
    /\ th[1].pc = "returned"
    /\ th[1].out.kind = "pair"
    /\ ~onnx_dynamic
    /\ Len(th[1].made) = HeadNl
    /\ ~th[1].made[1].made
    /\ th[1].img = <<1, 2>>

\* the value the claim gives output o of anchor a at cell (yy, xx) of scale i
DecodedValue(seed, i, a, yy, xx, o) ==
    LET s == Sigmoid(Raw(seed, i, a, yy, xx, o))
        twice == RMul(s, RInt(2))
    IN  CASE o = 1 -> RMul(RAdd(RSub(twice, Rat(1, 2)), RInt(xx)), RInt(DetectHead.stride[i]))
          [] o = 2 -> RMul(RAdd(RSub(twice, Rat(1, 2)), RInt(yy)), RInt(DetectHead.stride[i]))
          [] o = 3 -> RMul(RMul(twice, twice), RInt(DetectHead.pixels[i][a][1]))
          [] o = 4 -> RMul(RMul(twice, twice), RInt(DetectHead.pixels[i][a][2]))
          [] OTHER -> s

\* where the predictions of scale i begin in the output
RECURSIVE ScaleOffset(_, _)
ScaleOffset(img, i) ==
    IF i = 1 THEN 0
    ELSE ScaleOffset(img, i - 1) + HeadNa * RowsOf(img, i - 1) * ColsOf(img, i - 1)

\* C10: in inference mode the output holds, for every scale, anchor and grid
\* cell, xy = (sigmoid(raw_xy) * 2 - 0.5 + grid) * stride and
\* wh = (sigmoid(raw_wh) * 2)^2 * anchor_grid, and the sigmoid of the raw
\* objectness and class values; the in-place branch and the other branch
\* decode every scale to the same values.
C10_Decoding ==
    (th[1].pc = "returned" /\ th[1].out.kind = "pair") =>
        /\ Len(th[1].z) = ScaleOffset(th[1].img, HeadNl + 1)
        /\ \A i \in 1..HeadNl :
              LET ny == OwnSize(1, i)[1]
                  nx == OwnSize(1, i)[2]
              IN  /\ \A a \in 1..HeadNa, yy \in 0..ny - 1, xx \in 0..nx - 1 :
                        th[1].z[ScaleOffset(th[1].img, i) + (a - 1) * ny * nx + yy * nx + xx + 1]
                           = [o \in 1..HeadNo |->
                                 DecodedValue(th[1].seed, i, a, yy, xx, o)]
                  /\ DecodeScale(th[1].seed, i, ny, nx, th[1].used[i].grid,
                                 th[1].used[i].anchor_grid, TRUE)
                     = DecodeScale(th[1].seed, i, ny, nx, th[1].used[i].grid,
                                   th[1].used[i].anchor_grid, FALSE)

\* an inference call on a 1 x 2 image returned its decoded predictions,
\* computed by the in-place branch
C10_Witness ==
    /\ th[1].pc = "returned"
    /\ th[1].out.kind = "pair"
    /\ inplace
    /\ th[1].img = <<1, 2>>
    /\ th[1].seed = 1
    /\ Len(th[1].z) = HeadNa * (8 + 2)

\* C9: with two concurrent calls on feature maps of different sizes, every
\* call decodes each scale with the grid and the anchor grid built for its own
\* (ny, nx).
C9_OwnGridObserved ==
    \A t \in Callers : \A k \in 1..Len(th[t].used) :
        /\ th[t].used[k].grid = MakeGrid(OwnSize(t, k)[2], OwnSize(t, k)[1])
        /\ th[t].used[k].anchor_grid = MakeAnchorGrid(OwnSize(t, k)[2], OwnSize(t, k)[1], k)

(***************************************************************************)
(* Properties of augmented inference                                       *)
(***************************************************************************)

\* what the claim gives for the prediction q
DescaledValue(q, flips, scale, img_size) ==
    LET xs == RDiv(q[1], scale)
        ys == RDiv(q[2], scale)
    IN  <<IF flips = 3 THEN RSub(RInt(img_size[2]), xs) ELSE xs,
          IF flips = 2 THEN RSub(RInt(img_size[1]), ys) ELSE ys,
          RDiv(q[3], scale), RDiv(q[4], scale)>> \o SubSeq(q, 5, Len(q))

\* C5: _descale_pred maps (x, y, w, h) to (x/s, y/s, w/s, h/s), then x to
\* W - x/s under the left-right flip or y to H - y/s under the up-down flip,
\* and keeps objectness and class; both branches give the same result.
C5_Descale ==
    (aug.op = "descale" /\ aug.done) =>
        /\ Len(aug.out) = Len(aug.p)
        /\ \A k \in 1..Len(aug.p) :
              /\ aug.out[k] = DescaledValue(aug.p[k], aug.flips, aug.scale, aug.img_size)
              /\ DescaleInplace(aug.p[k], aug.flips, aug.scale, aug.img_size)
                 = DescaleCat(aug.p[k], aug.flips, aug.scale, aug.img_size)

\* x = 10, s = 1, W = 640 and the left-right flip gave x = 630, in place
C5_Witness ==
    /\ aug.op = "descale"
    /\ aug.done
    /\ inplace
    /\ aug.flips = 3
    /\ aug.scale = <<1, 1>>
    /\ aug.img_size = <<480, 640>>
    /\ aug.p[1][1] = <<10, 1>>
    /\ aug.out[1][1] = <<630, 1>>

\* predictions-per-grid-cell of a pass of n predictions for 3 scales
PerCell(n) == n \div (1 + 4 + 16)

RECURSIVE PredictionCount(_, _)
PredictionCount(img, i) ==
    IF i = 0 THEN 0
    ELSE PredictionCount(img, i - 1) + HeadNa * RowsOf(img, i) * ColsOf(img, i)

\* what a call has returned: the bare list of the nl raw tensors shaped (batch,
\* anchors, height, width, outputs), with no grid read or rebuilt, or the pair of
\* the decoded predictions, sum of anchors x height x width many, and that list
ResultShaped ==
    th[1].pc = "returned" =>
        LET shapes == [k \in 1..HeadNl |->
                          <<1, HeadNa, RowsOf(th[1].img, k), ColsOf(th[1].img, k),
                            DetectHead.nc + 5>>]
        IN  /\ th[1].out.kind \in {"x", "pair"}
            /\ th[1].out.x = shapes
            /\ th[1].out.kind = "x" =>
                  /\ DOMAIN th[1].out = {"kind", "x"}
                  /\ th[1].made = <<>>
                  /\ th[1].used = <<>>
            /\ th[1].out.kind = "pair" =>
                  /\ Len(th[1].out.z) = PredictionCount(th[1].img, HeadNl)
                  /\ \A k \in 1..Len(th[1].out.z) : Len(th[1].out.z[k]) = DetectHead.nc + 5
                  /\ Len(th[1].used) = HeadNl

\* a step of a call: the return gives the bare list exactly when the mode flag
\* is Training, and a call that starts in Training leaves both grid caches alone
ModeDecides ==
    /\ (th[1].pc = "return" /\ th'[1].pc = "returned") =>
          (th'[1].out.kind = "x" <=> training)
    /\ (th[1].pc \notin {"grid", "decode"} /\ th'[1].pc = "return") =>
          (training /\ grid' = grid /\ anchor_grid' = anchor_grid)

SpecOf(k) == Layers(heap[dref])[k]

EffectiveRepeat(k) == DepthGain(SpecOf(k).n, heap[dref].gd)

\* the types whose constructor is handed the depth-scaled repeat count
TakesRepeat(m) == InsertsRepeat(m) \/ m = "MobileOne"

\* C12: a layer whose type is handed the depth-scaled repeat count as a
\* constructor argument is built as exactly one instance; any other layer
\* with an effective repeat n > 1 is built as exactly n instances.
C12_RepeatCollapses ==
    \A k \in 1..Len(layers) :
        IF TakesRepeat(layers[k].type)
        THEN layers[k].copies = 1
        ELSE EffectiveRepeat(k) > 1 => layers[k].copies = EffectiveRepeat(k)

\* the channel trace after the layers 0..pi-1: one entry per built layer
TraceAligned ==
    /\ (pc = "loop" /\ pi = 0) => ch = <<heap[dref].ch>>
    /\ (pc \in {"loop", "built"} /\ pi >= 1) => Len(ch) = pi

\* a step of the loop appends the channel count it recorded for the layer and
\* changes no entry of a built layer
TraceAppends ==
    (pc = "loop" /\ pc' = "loop" /\ pi' = pi + 1) =>
        /\ Len(ch') = pi + 1
        /\ ch'[pi + 1] = c2'
        /\ pi >= 1 => \A k \in 1..pi : ch'[k] = ch[k]

\* C13: after layer i is processed the channel trace has exactly i + 1
\* entries, entry k being the channel count recorded for layer k; the input
\* channel entry is there only while layer 0 is resolved; no entry changes
\* once appended.
C13_ChannelTrace == []TraceAligned /\ [][TraceAppends]_vars

\* three layers are built and the trace holds their three channel counts, not
\* all the same
C13_Witness ==
    /\ pc = "built"
    /\ pi = 3
    /\ Len(ch) = 3
    /\ ch[1] # ch[2]

\* the channel count recorded for the layer that the source src of layer i (from
\* 0) names; for -1 at layer 0 the input channels
ChannelOf(src, i) ==
    IF Denotes(src, i) < 0 THEN heap[dref].ch ELSE ch[Denotes(src, i) + 1]

\* C15: a channel-preserving layer (nn.BatchNorm2d, or a type of the default
\* rule) after the first, with a valid source f, records exactly the channel
\* count recorded for layer f, whatever layer precedes it.
C15_ChannelFromSource ==
    pc \in {"loop", "built"} =>
        \A k \in 1..Len(layers) :
            (/\ Rule(layers[k].type) \in {"batchnorm", "default"}
             /\ ~layers[k].f.list
             /\ k >= 2
             /\ PyIndexOK(k - 1, layers[k].f.v[1]))
            => ch[k] = ChannelOf(layers[k].f.v[1], k - 1)

\* C16: for any nl >= 1 and non-empty passes, _clip_augmented leaves the first
\* and the last pass non-empty: it removes from each fewer predictions than
\* the pass holds.
C16_ClipKeepsPasses ==
    (/\ aug.op = "clip"
     /\ aug.done
     /\ \A k \in 1..3 : Len(aug.y[k]) >= 1)
    => /\ Len(aug.out[1]) >= 1
       /\ Len(aug.out[3]) >= 1

\* C14: after fuse has returned, every Conv, DWConv and CBH that had a
\* normalization sub-layer has lost it and uses its fused forward; every
\* RepVGGBlock that had an rbr_1x1 has deploy set, uses its fused forward and
\* keeps none of rbr_1x1, rbr_identity, id_tensor, se; and a second call of
\* fuse changes no module.
C14_FuseCompletes ==
    /\ net.fuses >= 1 =>
          \A k \in 1..Len(net.mods) :
              /\ (net.built[k].type \in {"Conv", "DWConv", "CBH"} /\ "bn" \in net.built[k].attrs)
                 => /\ "bn" \notin net.mods[k].attrs
                    /\ net.mods[k].fwd \in {"forward_fuse", "fuseforward"}
              /\ (net.built[k].type = "RepVGGBlock" /\ "rbr_1x1" \in net.built[k].attrs)
                 => /\ net.mods[k].deploy
                    /\ net.mods[k].fwd = "fusevggforward"
                    /\ net.mods[k].attrs \cap {"rbr_1x1", "rbr_identity", "id_tensor", "se"} = {}
    /\ net.fuses >= 2 => net.mods = net.prev

=============================================================================
